---- MODULE Spec2Model ----
(***************************************************************************)
(* Model of the e-commerce product search application:                     *)
(*   app/app.py                          Streamlit session, search, chat   *)
(*   app/services/azure_search_service.py  retrieval and normalization     *)
(*   app/services/openai_service.py      embedding and chat completion     *)
(*   app/config.py                       settings                          *)
(*                                                                         *)
(* Python values are modelled by one uniform record shape (PyValue), so    *)
(* that None, strings, numbers and lists can be compared with each other.  *)
(* A string is a sequence of tokens (a word, or one whitespace character). *)
(***************************************************************************)
EXTENDS Integers, Sequences, FiniteSets, TLC

VARIABLES
    products,        \* st.session_state.products
    current_page,    \* st.session_state.current_page
    is_search_mode,  \* st.session_state.is_search_mode
    search_query,    \* st.session_state.search_query
    chat_messages,   \* st.session_state.chat_messages
    g_search_service,  \* azure_search_service._search_service
    g_openai_service,  \* openai_service._openai_service
    config,          \* the required connection settings of config.Config
    config_loaded,   \* whether the config module has been imported
    op,              \* name of the operation that ran last
    args,            \* its arguments
    calls,           \* outbound calls it issued, in order
    requests,        \* queries it sent to the search backend, in order
    completions,     \* calls it made to the chat-completion backend, in order
    results,         \* raw documents the search backend returned to it
    outcome,         \* what it returned or raised
    env,             \* how the backends behaved while it ran
    notice           \* UI notices it showed (st.error / st.warning / st.success)

vars == <<products, current_page, is_search_mode, search_query, chat_messages,
          g_search_service, g_openai_service, config, config_loaded,
          op, args, calls, requests, completions, results, outcome, env, notice>>

session == <<products, current_page, is_search_mode, search_query, chat_messages>>

process == <<g_search_service, g_openai_service, config, config_loaded>>

-----------------------------------------------------------------------------
(* Bounds of the model *)

\* largest top_k passed to a retrieval operation
MaxTopK == 2

\* most chat exchanges (a user turn and the assistant's answer) in a session
MaxExchanges == 6

\* longest backend response enumerated for result normalization
MaxResults == 2

\* most pages of the product grid
MaxPages == 2

\* most chat exchanges in a session that also uses the product list
MaxAppExchanges == 1

-----------------------------------------------------------------------------
(* Python values *)

PyNone == [t |-> "NoneType", s |-> <<>>, n |-> 0, l |-> <<>>]

PyStr(tokens) == [t |-> "str", s |-> tokens, n |-> 0, l |-> <<>>]

PyInt(i) == [t |-> "int", s |-> <<>>, n |-> i, l |-> <<>>]

\* a float, kept in units of 1/10000
PyFloat(i) == [t |-> "float", s |-> <<>>, n |-> i, l |-> <<>>]

PyList(xs) == [t |-> "list", s |-> <<>>, n |-> 0, l |-> xs]

\* Python truthiness: None, "", 0, 0.0 and [] are false
Falsy(v) ==
    \/ v.t = "NoneType"
    \/ v.t = "str" /\ v.s = <<>>
    \/ v.t \in {"int", "float"} /\ v.n = 0
    \/ v.t = "list" /\ v.l = <<>>

\* Python's  a or b
PyOr(a, b) == IF Falsy(a) THEN b ELSE a

\* dict.get(key, default)
DictGet(d, key, default) == IF key \in DOMAIN d THEN d[key] ELSE default

\* getattr(obj, name, default): attribute lookup, which does not read the
\* object's mapping items
GetAttr(obj, name, default) ==
    IF name \in DOMAIN obj.attr THEN obj.attr[name] ELSE default

Min(a, b) == IF a <= b THEN a ELSE b

\* a call that returned a value, and one that raised an exception
Returned(value) == [raised |-> FALSE, exc |-> "", value |-> value]

Raised(exc) == [raised |-> TRUE, exc |-> exc, value |-> <<>>]

-----------------------------------------------------------------------------
(* Search backend documents *)

PlainKeys == {"id", "name", "brand", "description", "price", "imageUrl",
              "imageCaption", "imageDescription"}

ScoreKeys == {"@search.score", "@search.reranker_score"}

DocKeys == PlainKeys \cup {"imageTags"} \cup ScoreKeys

\* a value of the right type for each key of a document
SampleValue(key) ==
    CASE key = "id" -> PyStr(<<"p1">>)
      [] key = "name" -> PyStr(<<"wool", " ", "coat">>)
      [] key = "brand" -> PyStr(<<"acme">>)
      [] key = "description" -> PyStr(<<"warm">>)
      [] key = "price" -> PyInt(25000)
      [] key = "imageUrl" -> PyStr(<<"http://img/1">>)
      [] key = "imageCaption" -> PyStr(<<"a", " ", "coat">>)
      [] key = "imageDescription" -> PyStr(<<"grey">>)
      [] key = "imageTags" -> PyList(<<"winter", "coat">>)
      [] key = "@search.score" -> PyFloat(8700)
      [] key = "@search.reranker_score" -> PyFloat(21000)

\* how a document may carry a key: not at all, with a null, with a typed
\* value, or (the tag list) with an empty list
Presence == {"missing", "null", "value", "empty"}

\* A result of the search client is a dict: its items are the selected index
\* fields and the "@search.*" entries; it has no attribute of such a name.
SearchDocument(shape) ==
    [item |-> [k \in {x \in DocKeys : shape[x] # "missing"} |->
                  CASE shape[k] = "null" -> PyNone
                    [] shape[k] = "empty" -> PyList(<<>>)
                    [] OTHER -> SampleValue(k)],
     attr |-> <<>>]

\* every document shape over the given keys
AllShapes(keys) ==
    {[k \in keys |->
         IF k \in PlainKeys THEN p[k] ELSE IF k = "imageTags" THEN tg ELSE sc[k]]
     : p \in [PlainKeys -> {"missing", "null", "value"}],
       tg \in Presence,
       sc \in [ScoreKeys -> {"missing", "value"}]}

FullShape == [k \in DocKeys |-> "value"]

\* a few documents from which longer backend responses are built
CoreShapes ==
    {FullShape,
     [FullShape EXCEPT !["imageTags"] = "null"],
     [k \in DocKeys |-> IF k = "id" THEN "value" ELSE "missing"]}

RECURSIVE SeqsUpTo(_, _)
\* the sequences over S of length at most n
SeqsUpTo(S, n) ==
    IF n = 0 THEN {<<>>}
    ELSE LET shorter == SeqsUpTo(S, n - 1)
         IN  shorter \cup {Append(q, x) : q \in shorter, x \in S}

-----------------------------------------------------------------------------
(* azure_search_service.py: result normalization *)

\* the dict built for one result
ProductOf(result) ==
    [id |-> DictGet(result.item, "id", PyNone),
     name |-> DictGet(result.item, "name", PyNone),
     brand |-> DictGet(result.item, "brand", PyNone),
     description |-> DictGet(result.item, "description", PyNone),
     price |-> DictGet(result.item, "price", PyNone),
     imageUrl |-> DictGet(result.item, "imageUrl", PyNone),
     imageCaption |-> DictGet(result.item, "imageCaption", PyNone),
     imageDescription |-> DictGet(result.item, "imageDescription", PyNone),
     imageTags |-> DictGet(result.item, "imageTags", PyList(<<>>)),
     score |-> GetAttr(result, "@search.score", PyNone),
     reranker_score |-> GetAttr(result, "@search.reranker_score", PyNone)]

\* AzureSearchService._process_results
process_results(raw) == [i \in 1..Len(raw) |-> ProductOf(raw[i])]

-----------------------------------------------------------------------------
(* config.py *)

MAX_SEARCH_RESULTS == 5

\* DEFAULT_TEMPERATURE = 0.7, in units of 1/10000
DEFAULT_TEMPERATURE == 7000

MAX_TOKENS == 1000

\* the settings Config.validate requires
required_fields ==
    <<"AZURE_OPENAI_ENDPOINT", "AZURE_OPENAI_API_KEY", "AZURE_SEARCH_SERVICE_ENDPOINT">>

RequiredSettings == {required_fields[i] : i \in 1..Len(required_fields)}

\* os.getenv(name): None when the variable is not set, else its text
SettingValues == {PyNone, PyStr(<<>>), PyStr(<<"https://service">>)}

CompleteConfig == [f \in RequiredSettings |-> PyStr(<<"https://service">>)]

\* Config.validate: raises ValueError naming the settings that are missing
validate(cfg) ==
    LET missing_fields == SelectSeq(required_fields, LAMBDA f : Falsy(cfg[f]))
    IN  IF ~Falsy(PyList(missing_fields))
        THEN [raised |-> TRUE, exc |-> "ValueError: Missing required configuration",
              missing |-> missing_fields]
        ELSE [raised |-> FALSE, exc |-> "", missing |-> <<>>]

\* The module body of config.py: try: Config.validate() ... except ValueError
\* as e: print(warning).  What the import raises and what it prints.
import_config(cfg) ==
    LET v == validate(cfg)
    IN  IF v.raised
        THEN [raised |-> FALSE, exc |-> "",
              printed |-> <<"Configuration warning:", v.exc>> \o v.missing]
        ELSE [raised |-> FALSE, exc |-> "",
              printed |-> <<"Configuration loaded successfully">>]

-----------------------------------------------------------------------------
(* The backends *)

\* The catalog held by the search index: a complete product and a sparse one.
Index ==
    <<SearchDocument(FullShape),
      [item |-> [k \in {"id", "name", "price", "imageTags", "@search.score"} |->
                    CASE k = "id" -> PyStr(<<"p2">>)
                      [] k = "name" -> PyStr(<<"boots">>)
                      [] k = "price" -> PyNone
                      [] k = "imageTags" -> PyList(<<>>)
                      [] OTHER -> PyFloat(3300)],
       attr |-> <<>>]>>

\* The rankings the backend may compute for a query: any sequence of distinct
\* documents of the index (its matching and scoring are opaque).
Rankings ==
    {q \in SeqsUpTo({Index[i] : i \in 1..Len(Index)}, Len(Index)) :
        \A i, j \in 1..Len(q) : i # j => q[i] # q[j]}

\* How the backends behave during one operation: whether each remote call
\* succeeds, and the ranking the search backend computes.
Envs ==
    [embed : {"ok", "fail"}, search : {"ok", "fail"}, complete : {"ok", "fail"},
     ranked : Rankings]

NoEnv == [embed |-> "ok", search |-> "ok", complete |-> "ok", ranked |-> <<>>]

Whitespace == {" ", "\n", "\t"}

\* str.replace("\n", " ")
ReplaceNewlines(text) == [i \in 1..Len(text) |-> IF text[i] = "\n" THEN " " ELSE text[i]]

RECURSIVE LStrip(_)
LStrip(text) ==
    IF text # <<>> /\ Head(text) \in Whitespace THEN LStrip(Tail(text)) ELSE text

RECURSIVE RStrip(_)
RStrip(text) ==
    IF text # <<>> /\ text[Len(text)] \in Whitespace
    THEN RStrip(SubSeq(text, 1, Len(text) - 1)) ELSE text

\* str.strip()
Strip(text) == RStrip(LStrip(text))

\* SearchClient.search(**request): the call fails, or the backend returns the
\* first `top` documents of its ranking
SearchClientSearch(request, e) ==
    IF e.search = "fail" THEN [raised |-> TRUE, exc |-> "search failed", docs |-> <<>>]
    ELSE [raised |-> FALSE, exc |-> "",
          docs |-> SubSeq(e.ranked, 1, Min(request.top.n, Len(e.ranked)))]

-----------------------------------------------------------------------------
(* openai_service.py *)

\* an embedding request repeated once
get_embedding_twice(text, e) ==
    LET cleaned == Strip(ReplaceNewlines(text))
    IN  IF e.embed = "fail"
        THEN [raised |-> TRUE, exc |-> "embedding failed",
              calls |-> <<"embeddings.create", "embeddings.create">>, vector |-> <<>>]
        ELSE [raised |-> FALSE, exc |-> "",
              calls |-> <<"embeddings.create", "embeddings.create">>,
              vector |-> <<"embedding of">> \o cleaned]

\* OpenAIService.get_embedding: one call to the embedding backend
get_embedding(text, e) ==
    LET cleaned == Strip(ReplaceNewlines(text))
    IN  IF e.embed = "fail"
        THEN [raised |-> TRUE, exc |-> "embedding failed", calls |-> <<"embeddings.create">>,
              vector |-> <<>>]
        ELSE [raised |-> FALSE, exc |-> "", calls |-> <<"embeddings.create">>,
              vector |-> <<"embedding of">> \o cleaned]

-----------------------------------------------------------------------------
(* azure_search_service.py: the retrieval operations *)

SelectFields == <<"id", "name", "brand", "description", "price", "imageUrl",
                  "imageCaption", "imageDescription", "imageTags">>

\* what an operation did: the calls it issued, the queries it sent, the raw
\* documents it got back, and what it returned or raised
Did(cs, rs, raw, out) == [calls |-> cs, requests |-> rs, results |-> raw, outcome |-> out]

\* one query to the search backend, then the normalization of its results
SearchAndProcess(before, request, e) ==
    LET resp == SearchClientSearch(request, e)
    IN  IF resp.raised
        THEN Did(Append(before, "search"), <<request>>, <<>>, Raised(resp.exc))
        ELSE Did(Append(before, "search"), <<request>>, resp.docs,
                 Returned(process_results(resp.docs)))

\* VectorizedQuery(vector=..., k_nearest_neighbors=top_k, fields="descriptionVector")
VectorizedQuery(vector, k) ==
    [vector |-> vector, k_nearest_neighbors |-> k, fields |-> "descriptionVector"]

\* AzureSearchService.get_all_products
get_all_products(top_k, e) ==
    SearchAndProcess(<<>>,
        [search_text |-> PyStr(<<"*">>), select |-> SelectFields, top |-> top_k], e)

\* the default applied to top_k by the three search methods
EffectiveTopK(top_k) == PyOr(top_k, PyInt(MAX_SEARCH_RESULTS))

\* a keyword search that also embeds the query
keyword_search_embedding(query, search_fields, top_k, e) ==
    LET emb == get_embedding(query, e)
        request == [search_text |-> PyStr(query), top |-> EffectiveTopK(top_k),
                    select |-> SelectFields]
    IN  IF emb.raised THEN Did(emb.calls, <<>>, <<>>, Raised(emb.exc))
        ELSE SearchAndProcess(emb.calls, request, e)

\* AzureSearchService.keyword_search
keyword_search(query, search_fields, top_k, e) ==
    LET k == EffectiveTopK(top_k)
        base == [search_text |-> PyStr(query), top |-> k, select |-> SelectFields]
        request == IF ~Falsy(search_fields)
                   THEN [search_text |-> PyStr(query), top |-> k, select |-> SelectFields,
                         search_fields |-> search_fields]
                   ELSE base
    IN  SearchAndProcess(<<>>, request, e)

\* a hybrid search that never restricts the fields
hybrid_search_unrestricted(query, search_fields, top_k, e) ==
    LET k == EffectiveTopK(top_k)
        emb == get_embedding(query, e)
        request == [search_text |-> PyStr(query),
                    vector_queries |-> <<VectorizedQuery(emb.vector, k)>>,
                    select |-> SelectFields, top |-> k]
    IN  IF emb.raised THEN Did(emb.calls, <<>>, <<>>, Raised(emb.exc))
        ELSE SearchAndProcess(emb.calls, request, e)

\* AzureSearchService.hybrid_search
hybrid_search(query, search_fields, top_k, e) ==
    LET k == EffectiveTopK(top_k)
        emb == get_embedding(query, e)
        vq == VectorizedQuery(emb.vector, k)
        base == [search_text |-> PyStr(query), vector_queries |-> <<vq>>,
                 select |-> SelectFields, top |-> k]
        request == IF ~Falsy(search_fields)
                   THEN [search_text |-> PyStr(query), vector_queries |-> <<vq>>,
                         select |-> SelectFields, top |-> k,
                         search_fields |-> search_fields]
                   ELSE base
    IN  IF emb.raised THEN Did(emb.calls, <<>>, <<>>, Raised(emb.exc))
        ELSE SearchAndProcess(emb.calls, request, e)

\* a vector search that also sends the query text
vector_search_with_text(query, search_fields, top_k, e) ==
    LET k == EffectiveTopK(top_k)
        emb == get_embedding(query, e)
        request == [search_text |-> PyStr(query),
                    vector_queries |-> <<VectorizedQuery(emb.vector, k)>>,
                    select |-> SelectFields, top |-> k]
    IN  IF emb.raised THEN Did(emb.calls, <<>>, <<>>, Raised(emb.exc))
        ELSE SearchAndProcess(emb.calls, request, e)

\* AzureSearchService.vector_search
vector_search(query, search_fields, top_k, e) ==
    LET k == EffectiveTopK(top_k)
        emb == get_embedding(query, e)
        vq == VectorizedQuery(emb.vector, k)
        request == [search_text |-> PyNone, vector_queries |-> <<vq>>,
                    select |-> SelectFields, top |-> k]
    IN  IF emb.raised THEN Did(emb.calls, <<>>, <<>>, Raised(emb.exc))
        ELSE SearchAndProcess(emb.calls, request, e)

-----------------------------------------------------------------------------
(* app.py: the retrieval boundary *)

ALL_SEARCH_FIELDS ==
    PyList(<<"name", "brand", "description", "imageCaption", "imageDescription",
             "imageTags">>)

\* what a boundary function did: as Did, plus the notices it showed
Shown(d, out, notices) ==
    [calls |-> d.calls, requests |-> d.requests, results |-> d.results,
     outcome |-> out, notice |-> notices]

\* no handler: the exception leaves the function
CatchNothing(d, message) == Shown(d, d.outcome, <<>>)

\* try: ... except Exception as e: st.error(...); return []
CatchAll(d, message) ==
    IF d.outcome.raised
    THEN Shown(d, Returned(<<>>), <<[level |-> "error", text |-> <<message, d.outcome.exc>>]>>)
    ELSE Shown(d, d.outcome, <<>>)

\* search_products
search_products(query, strategy, search_fields, e) ==
    LET fields_to_search == IF ~Falsy(search_fields) THEN search_fields ELSE PyNone
        d == IF strategy = "keyword" THEN keyword_search(query, fields_to_search, PyNone, e)
             ELSE IF strategy = "vector" THEN vector_search(query, fields_to_search, PyNone, e)
             ELSE hybrid_search(query, fields_to_search, PyNone, e)
    IN  CatchAll(d, "search error:")

\* load_all_products
load_all_products(e) == CatchAll(get_all_products(PyInt(100), e), "load error:")

-----------------------------------------------------------------------------
(* The service singletons *)

\* an accessor that constructs a client on every call
get_openai_service_eager(g_openai, constructed) ==
    IF constructed = "ok"
    THEN [raised |-> FALSE, exc |-> "", g_openai |-> "instance",
          calls |-> <<"OpenAIService()">>]
    ELSE [raised |-> TRUE, exc |-> "openai client failed", g_openai |-> "None",
          calls |-> <<"OpenAIService()">>]

\* openai_service.get_openai_service: the instance, constructed on first use
get_openai_service(g_openai, constructed) ==
    IF g_openai = "None"
    THEN IF constructed = "ok"
         THEN [raised |-> FALSE, exc |-> "", g_openai |-> "instance",
               calls |-> <<"OpenAIService()">>]
         ELSE [raised |-> TRUE, exc |-> "openai client failed", g_openai |-> "None",
               calls |-> <<"OpenAIService()">>]
    ELSE [raised |-> FALSE, exc |-> "", g_openai |-> g_openai, calls |-> <<>>]

\* azure_search_service.get_search_service: AzureSearchService() builds the
\* search client, then obtains the OpenAI service
get_search_service(g_search, g_openai, search_constructed, openai_constructed) ==
    IF g_search = "None"
    THEN IF search_constructed # "ok"
         THEN [raised |-> TRUE, exc |-> "search client failed",
               g_search |-> "None", g_openai |-> g_openai,
               calls |-> <<"AzureSearchService()">>]
         ELSE LET o == get_openai_service(g_openai, openai_constructed)
              IN  IF o.raised
                  THEN [raised |-> TRUE, exc |-> o.exc,
                        g_search |-> "None", g_openai |-> o.g_openai,
                        calls |-> <<"AzureSearchService()">> \o o.calls]
                  ELSE [raised |-> FALSE, exc |-> "",
                        g_search |-> "instance", g_openai |-> o.g_openai,
                        calls |-> <<"AzureSearchService()">> \o o.calls]
    ELSE [raised |-> FALSE, exc |-> "", g_search |-> g_search, g_openai |-> g_openai,
          calls |-> <<>>]

\* the outcomes a construction may have; one that is not attempted has none
ConstructOutcomes(g) == IF g = "None" THEN {"ok", "fail"} ELSE {"ok"}

-----------------------------------------------------------------------------
(* openai_service.py: chat completion *)

\* the text the completion backend generates (opaque)
GeneratedText == <<"generated reply">>

\* OpenAIService.chat_completion: one call to the completion backend
chat_completion(messages, temperature, max_tokens, e) ==
    LET call == [model |-> "gpt_deployment", messages |-> messages,
                 temperature |-> PyOr(temperature, PyFloat(DEFAULT_TEMPERATURE)),
                 max_tokens |-> PyOr(max_tokens, PyInt(MAX_TOKENS))]
    IN  IF e.complete = "fail"
        THEN [raised |-> TRUE, exc |-> "completion failed", call |-> call, text |-> <<>>]
        ELSE [raised |-> FALSE, exc |-> "", call |-> call, text |-> GeneratedText]

-----------------------------------------------------------------------------
(* app.py: formatting of the grounding context *)

DigitChar(d) ==
    CASE d = 0 -> "0" [] d = 1 -> "1" [] d = 2 -> "2" [] d = 3 -> "3" [] d = 4 -> "4"
      [] d = 5 -> "5" [] d = 6 -> "6" [] d = 7 -> "7" [] d = 8 -> "8" [] d = 9 -> "9"

RECURSIVE Digits(_)
\* the decimal digits of n >= 0
Digits(n) ==
    IF n < 10 THEN <<DigitChar(n)>> ELSE Append(Digits(n \div 10), DigitChar(n % 10))

RECURSIVE GroupThousands(_)
GroupThousands(ds) ==
    IF Len(ds) <= 3 THEN ds
    ELSE GroupThousands(SubSeq(ds, 1, Len(ds) - 3)) \o <<",">>
         \o SubSeq(ds, Len(ds) - 2, Len(ds))

\* f"{n:,}" for an integer
FormatThousands(n) ==
    IF n < 0 THEN <<"-">> \o GroupThousands(Digits(-n)) ELSE GroupThousands(Digits(n))

RECURSIVE TrimZeros(_)
\* the fraction digits without trailing zeros, keeping one digit
TrimZeros(ds) ==
    IF Len(ds) > 1 /\ ds[Len(ds)] = "0" THEN TrimZeros(SubSeq(ds, 1, Len(ds) - 1)) ELSE ds

\* f"{x:,}" for a float kept in units of 1/10000
FormatThousandsFloat(n) ==
    LET m == IF n < 0 THEN -n ELSE n
        frac == Digits(m % 10000)
        pad == [i \in 1..(4 - Len(frac)) |-> "0"]
    IN  (IF n < 0 THEN <<"-">> ELSE <<>>) \o GroupThousands(Digits(m \div 10000))
        \o <<".">> \o TrimZeros(pad \o frac)

\* f"{x:.4f}" for a number kept in units of 1/10000
FormatFixed4(n) ==
    LET m == IF n < 0 THEN -n ELSE n
        frac == Digits(m % 10000)
        pad == [i \in 1..(4 - Len(frac)) |-> "0"]
    IN  (IF n < 0 THEN <<"-">> ELSE <<>>) \o Digits(m \div 10000) \o <<".">> \o pad \o frac

RECURSIVE Join(_, _)
\* sep.join(xs)
Join(xs, sep) ==
    IF xs = <<>> THEN <<>>
    ELSE IF Len(xs) = 1 THEN <<xs[1]>>
    ELSE <<xs[1], sep>> \o Join(Tail(xs), sep)

\* the text of a string value, as an f-string renders it
TextOf(v) == IF v.t = "str" THEN v.s ELSE <<"<", v.t, ">">>

\* a field rendered as it is, without a placeholder
OrNothing(v) == TextOf(v)

\* {value or 'N/A'}
OrNA(v) == TextOf(PyOr(v, PyStr(<<"N/A">>)))

\* the grounding context built from the top product; formatting a price or a
\* score that is not a number raises
product_context(top_product) ==
    LET price == DictGet(top_product, "price", PyInt(0))
        tags == DictGet(top_product, "imageTags", PyList(<<>>))
        score == DictGet(top_product, "score", PyInt(0))
        price_str == IF price.t # "NoneType"
                     THEN (IF price.t = "float" THEN FormatThousandsFloat(price.n)
                           ELSE FormatThousands(price.n)) \o <<"won">>
                     ELSE <<"no price info">>
        tags_str == IF tags.t = "list" /\ ~Falsy(tags) THEN Join(tags.l, ", ")
                    ELSE <<"N/A">>
        score_str == IF score.t # "NoneType"
                     THEN FormatFixed4(IF score.t = "int" THEN score.n * 10000 ELSE score.n)
                     ELSE <<"N/A">>
    IN  IF price.t \notin {"NoneType", "int", "float"}
        THEN [raised |-> TRUE, exc |-> "ValueError: price format", text |-> <<>>]
        ELSE IF score.t \notin {"NoneType", "int", "float"}
        THEN [raised |-> TRUE, exc |-> "ValueError: score format", text |-> <<>>]
        ELSE [raised |-> FALSE, exc |-> "",
              text |-> <<"\n", "[recommended product]", "\n", "- name: ">>
                  \o OrNA(DictGet(top_product, "name", PyNone))
                  \o <<"\n", "- brand: ">> \o OrNA(DictGet(top_product, "brand", PyNone))
                  \o <<"\n", "- price: ">> \o price_str
                  \o <<"\n", "- description: ">>
                  \o OrNA(DictGet(top_product, "description", PyNone))
                  \o <<"\n", "- image caption: ">>
                  \o OrNA(DictGet(top_product, "imageCaption", PyNone))
                  \o <<"\n", "- image description: ">>
                  \o OrNA(DictGet(top_product, "imageDescription", PyNone))
                  \o <<"\n", "- tags: ">> \o tags_str
                  \o <<"\n", "- relevance score: ">> \o score_str \o <<"\n">>]

-----------------------------------------------------------------------------
(* app.py: the chat step *)

\* the persona instruction
system_prompt == <<"friendly e-commerce recommendation chatbot instruction">>

\* the fixed reply when no product was found
NoProductsMessage == <<"sorry,", "no product found; please ask with other keywords">>

\* f"... {str(e)}": the reply when the step raised
ErrorMessage(exc) == <<"sorry,", "an error occurred:", exc>>

\* chat_messages[-7:]
HISTORY_WINDOW == 7

\* a window one turn short
recent_messages_short(history) ==
    IF Len(history) > HISTORY_WINDOW - 1
    THEN SubSeq(history, Len(history) - HISTORY_WINDOW + 2, Len(history))
    ELSE history

\* the recent chat history added to the prompt
recent_messages(history) ==
    IF Len(history) > HISTORY_WINDOW
    THEN SubSeq(history, Len(history) - HISTORY_WINDOW + 1, Len(history))
    ELSE history

\* the lowest-ranked result
bottom_product(search_results) == search_results[Len(search_results)]

\* search_results[0]
top_product(search_results) == search_results[1]

\* what the body of the try block did after retrieval: the calls and the
\* completion requests it issued, and the turn it appended or the exception
Replied(cs, cps, turn) ==
    [raised |-> FALSE, exc |-> "", calls |-> cs, completions |-> cps, turn |-> turn]

Threw(cs, cps, exc) ==
    [raised |-> TRUE, exc |-> exc, calls |-> cs, completions |-> cps,
     turn |-> [role |-> "assistant", content |-> <<>>]]

\* the branch for a non-empty result: context, prompt, completion, turn
grounded_reply(history, search_results, e) ==
    LET top == top_product(search_results)
        ctx == product_context(top)
        messages == <<[role |-> "system", content |-> system_prompt],
                      [role |-> "system", content |-> ctx.text]>>
                    \o recent_messages(history)
        cc == chat_completion(messages, PyNone, PyNone, e)
    IN  IF ctx.raised THEN Threw(<<>>, <<>>, ctx.exc)
        ELSE IF cc.raised THEN Threw(<<"chat.completions.create">>, <<cc.call>>, cc.exc)
        ELSE Replied(<<"chat.completions.create">>, <<cc.call>>,
                     [role |-> "assistant", content |-> cc.text, product |-> top])

\* a reply generated without any product
ungrounded_reply(history, e) ==
    LET messages == <<[role |-> "system", content |-> system_prompt]>>
                    \o recent_messages(history)
        cc == chat_completion(messages, PyNone, PyNone, e)
    IN  IF cc.raised THEN Threw(<<"chat.completions.create">>, <<cc.call>>, cc.exc)
        ELSE Replied(<<"chat.completions.create">>, <<cc.call>>,
                     [role |-> "assistant", content |-> cc.text])

\* no short-circuit on an empty result
recommend_always_generates(history, search_results, e) ==
    IF search_results # <<>> THEN grounded_reply(history, search_results, e)
    ELSE ungrounded_reply(history, e)

\* if search_results and len(search_results) > 0: ... else: ...
recommend(history, search_results, e) ==
    IF search_results # <<>> /\ Len(search_results) > 0
    THEN grounded_reply(history, search_results, e)
    ELSE Replied(<<>>, <<>>, [role |-> "assistant", content |-> NoProductsMessage])

\* an except branch that restarts the transcript
on_exception_reset(history, exc) ==
    <<[role |-> "assistant", content |-> ErrorMessage(exc)]>>

\* an except branch that drops the turn
on_exception_silent(history, exc) == history

\* except Exception as e: append the error message
on_exception(history, exc) ==
    Append(history, [role |-> "assistant", content |-> ErrorMessage(exc)])

\* The whole handling of a chat input: the user turn is appended, then inside
\* try: the OpenAI service is obtained, the products are retrieved (hybrid,
\* all fields) and the reply is assembled; except: the error turn is appended.
chat_step(history0, prompt, g_openai, constructed, e) ==
    LET history == Append(history0, [role |-> "user", content |-> prompt])
        svc == get_openai_service(g_openai, constructed)
        sp == search_products(prompt, "hybrid", ALL_SEARCH_FIELDS, e)
        r == recommend(history, sp.outcome.value, e)
    IN  IF svc.raised
        THEN [chat_messages |-> on_exception(history, svc.exc), g_openai |-> svc.g_openai,
              calls |-> <<>>, requests |-> <<>>, results |-> <<>>, completions |-> <<>>,
              outcome |-> Raised(svc.exc), notice |-> <<>>]
        ELSE [chat_messages |-> IF r.raised THEN on_exception(history, r.exc)
                                ELSE Append(history, r.turn),
              g_openai |-> svc.g_openai,
              calls |-> sp.calls \o r.calls, requests |-> sp.requests,
              results |-> sp.results, completions |-> r.completions,
              outcome |-> sp.outcome, notice |-> sp.notice]

-----------------------------------------------------------------------------
(* app.py: the sidebar buttons and the product list view *)

PRODUCTS_PER_PAGE == 9

Max(a, b) == IF a >= b THEN a ELSE b

\* math.ceil(a / b) for a >= 0 and b > 0
Ceil(a, b) == (a + b - 1) \div b

\* one notice of the UI
Notice(level, text) == [level |-> level, text |-> text]

\* display_products_grid: the page shown, its products, and the pagination
\* buttons that are enabled
display_products_grid(prods, page0) ==
    IF prods = <<>>
    THEN [page |-> page0, total_pages |-> 0, page_products |-> <<>>,
          previous |-> FALSE, next |-> FALSE]
    ELSE LET total_products == Len(prods)
             total_pages == Ceil(total_products, PRODUCTS_PER_PAGE)
             page == Max(1, Min(page0, total_pages))
             start_idx == (page - 1) * PRODUCTS_PER_PAGE
             end_idx == Min(start_idx + PRODUCTS_PER_PAGE, total_products)
         IN  [page |-> page, total_pages |-> total_pages,
              page_products |-> SubSeq(prods, start_idx + 1, end_idx),
              previous |-> ~(page <= 1), next |-> ~(page >= total_pages)]

\* what the part of a script run before the main content did: the session
\* values it left, the calls it issued, what its retrieval returned, and
\* the notices it showed
Ran(prods, page, mode, query, d, notices) ==
    [products |-> prods, current_page |-> page, is_search_mode |-> mode,
     search_query |-> query, calls |-> d.calls, requests |-> d.requests,
     results |-> d.results, outcome |-> d.outcome, notice |-> notices]

NothingDone == Did(<<>>, <<>>, <<>>, Returned(<<>>))

\* a search button that leaves the page where it was
search_click_keeps_page(prods, page, mode, stored_query, query, strategy, search_fields, e) ==
    IF Falsy(PyStr(query))
    THEN Ran(prods, page, mode, stored_query, NothingDone,
             <<Notice("warning", <<"enter a search query">>)>>)
    ELSE LET sp == search_products(query, strategy, search_fields, e)
         IN  IF sp.outcome.value # <<>>
             THEN Ran(sp.outcome.value, page, TRUE, query, sp, sp.notice)
             ELSE Ran(prods, page, mode, query, sp, sp.notice)

\* the search button: if st.button(search): if search_query: ... else: ...
search_click(prods, page, mode, stored_query, query, strategy, search_fields, e) ==
    IF Falsy(PyStr(query))
    THEN Ran(prods, page, mode, stored_query, NothingDone,
             <<Notice("warning", <<"enter a search query">>)>>)
    ELSE LET sp == search_products(query, strategy, search_fields, e)
         IN  IF sp.outcome.value # <<>>
             THEN Ran(sp.outcome.value, 1, TRUE, query, sp,
                      sp.notice \o <<Notice("success",
                          <<"products found:">> \o Digits(Len(sp.outcome.value)))>>)
             ELSE Ran(prods, page, mode, query, sp,
                      sp.notice \o <<Notice("warning", <<"no search result">>)>>)

\* the list-all button
list_all_click(e) ==
    LET d == load_all_products(e)
    IN  Ran(d.outcome.value, 1, FALSE, <<>>, d,
            d.notice \o <<Notice("success",
                <<"products loaded:">> \o Digits(Len(d.outcome.value)))>>)

\* no button was clicked in this run
no_click(prods, page, mode, stored_query) ==
    Ran(prods, page, mode, stored_query, NothingDone, <<>>)

\* The main content, which ends every script run.  The product list view
\* loads all products when the session has none, then shows the grid; the
\* chatbot view issues no call unless a message was entered.
main_content(menu, r, v) ==
    IF menu = "products" /\ r.products = <<>>
    THEN LET d == load_all_products(v)
         IN  [r EXCEPT !.products = d.outcome.value,
                       !.calls = r.calls \o d.calls,
                       !.requests = r.requests \o d.requests,
                       !.notice = r.notice \o d.notice]
    ELSE r

-----------------------------------------------------------------------------
(* Trace of the last operation *)

NoArgs == [query |-> <<>>, strategy |-> "", search_fields |-> PyNone, top_k |-> PyNone]

\* the session and the trace before anything ran
InitSession ==
    /\ products = <<>>
    /\ current_page = 1
    /\ is_search_mode = FALSE
    /\ search_query = <<>>
    /\ chat_messages = <<>>

\* the process before any service was constructed, its settings complete and
\* its config module imported
InitProcess ==
    /\ g_search_service = "None"
    /\ g_openai_service = "None"
    /\ config = CompleteConfig
    /\ config_loaded = TRUE

InitTrace ==
    /\ op = "init"
    /\ args = NoArgs
    /\ calls = <<>>
    /\ requests = <<>>
    /\ completions = <<>>
    /\ outcome = Returned(<<>>)
    /\ env = NoEnv
    /\ notice = <<>>

-----------------------------------------------------------------------------
(* Specification of a chat session: the application is loaded, then the     *)
(* user sends chat messages.                                                *)

\* what the chat input may hold when the script runs (nothing, or a message)
Prompts == {<<>>, <<"warm", " ", "coat">>}

\* A call that is never issued has no behaviour: backends' behaviours that
\* differ only in such a call are the same behaviour.
ChatEnvs ==
    {e \in Envs : /\ e.embed = "fail" => e.search = "ok"
                  /\ e.search = "fail" => e.ranked = <<>>
                  /\ e.ranked = <<>> => e.complete = "ok"}

Init ==
    /\ InitSession
    /\ InitProcess
    /\ InitTrace
    /\ results = <<>>

\* The script starts: search_service = get_services() constructs the search
\* service, which obtains the OpenAI service.  When a constructor raises the
\* script stops before main() and the next run tries again.
LoadApp ==
    \E cs \in ConstructOutcomes(g_search_service),
       co \in ConstructOutcomes(g_openai_service) :
        /\ g_search_service = "None"
        /\ cs = "fail" => co = "ok"
        /\ LET r == get_search_service(g_search_service, g_openai_service, cs, co)
           IN  /\ g_search_service' = r.g_search
               /\ g_openai_service' = r.g_openai
               /\ op' = "load_app"
               /\ outcome' = IF r.raised THEN Raised(r.exc) ELSE Returned(<<>>)
        /\ UNCHANGED <<session, config, config_loaded, args, calls, requests,
                       completions, results, env, notice>>

\* The user sends a chat message (app.py, if prompt: ...)
ChatMessage ==
    \E prompt \in Prompts, e \in ChatEnvs, c \in ConstructOutcomes(g_openai_service) :
        /\ g_search_service # "None"
        /\ ~Falsy(PyStr(prompt))
        /\ Len(chat_messages) < 2 * MaxExchanges
        /\ \E r \in {chat_step(chat_messages, prompt, g_openai_service, c, e)} :
               /\ chat_messages' = r.chat_messages
               /\ g_openai_service' = r.g_openai
               /\ op' = "chat"
               /\ args' = [query |-> prompt, strategy |-> "hybrid",
                           search_fields |-> ALL_SEARCH_FIELDS, top_k |-> PyNone]
               /\ calls' = r.calls
               /\ requests' = r.requests
               /\ results' = r.results
               /\ completions' = r.completions
               /\ outcome' = r.outcome
               /\ notice' = r.notice
               /\ env' = e
        /\ UNCHANGED <<products, current_page, is_search_mode, search_query,
                       g_search_service, config, config_loaded>>

Next ==
    \/ LoadApp
    \/ ChatMessage

Spec == Init /\ [][Next]_vars

-----------------------------------------------------------------------------
(* Specification of result normalization on its own: the backend response   *)
(* is any single document, or any short sequence of a few documents.        *)

NormInputs(longest) ==
    {<<SearchDocument(sh)>> : sh \in AllShapes(DocKeys)}
    \cup {[i \in 1..Len(q) |-> SearchDocument(q[i])] : q \in SeqsUpTo(CoreShapes, longest)}

InitNorm ==
    /\ InitSession
    /\ InitProcess
    /\ InitTrace
    /\ results \in NormInputs(MaxResults)

RunProcessResults ==
    /\ op = "init"
    /\ op' = "_process_results"
    /\ outcome' = Returned(process_results(results))
    /\ UNCHANGED <<session, process, args, calls, requests, completions, results,
                   env, notice>>

\* app.py, chat step: the grounding context is built from the first record
BuildProductContext ==
    /\ op = "_process_results"
    /\ outcome.value # <<>>
    /\ \E ctx \in {product_context(top_product(outcome.value))} :
           /\ op' = "product_context"
           /\ outcome' = IF ctx.raised THEN Raised(ctx.exc) ELSE Returned(ctx.text)
    /\ UNCHANGED <<session, process, args, calls, requests, completions, results,
                   env, notice>>

NextNorm ==
    \/ RunProcessResults
    \/ BuildProductContext

SpecNorm == InitNorm /\ [][NextNorm]_vars

-----------------------------------------------------------------------------
(* Specification of the retrieval operations on their own: each operation   *)
(* is called with any query, field list and top_k, against any behaviour    *)
(* of the backends.  The operations keep no state between calls.            *)

Queries == {<<>>, <<"coat">>, <<" ", "red", "\n", "coat", "\n">>}

FieldInputs == {PyNone, PyList(<<>>), PyList(<<"name">>), ALL_SEARCH_FIELDS}

TopKInputs == {PyNone} \cup {PyInt(k) : k \in 0..MaxTopK}

\* A call that is never issued has no behaviour: backends' behaviours that
\* differ only in such a call are the same behaviour.
RetrievalEnvs ==
    {e \in Envs : /\ e.complete = "ok"
                  /\ e.embed = "fail" => e.search = "ok"
                  /\ e.search = "fail" => e.ranked = <<>>}

InitRetrieve ==
    /\ InitSession
    /\ InitProcess
    /\ InitTrace
    /\ results = <<>>

\* the operation `name` was called with these arguments and did d
Record(name, a, d, e, notices) ==
    /\ op' = name
    /\ args' = a
    /\ calls' = d.calls
    /\ requests' = d.requests
    /\ results' = d.results
    /\ outcome' = d.outcome
    /\ env' = e
    /\ notice' = notices
    /\ UNCHANGED <<session, process, completions>>

CallKeywordSearch ==
    \E q \in Queries, f \in FieldInputs, k \in TopKInputs, e \in RetrievalEnvs :
        /\ op = "init"
        /\ Record("keyword_search",
               [query |-> q, strategy |-> "keyword", search_fields |-> f, top_k |-> k],
               keyword_search(q, f, k, e), e, <<>>)

CallVectorSearch ==
    \E q \in Queries, f \in FieldInputs, k \in TopKInputs, e \in RetrievalEnvs :
        /\ op = "init"
        /\ Record("vector_search",
               [query |-> q, strategy |-> "vector", search_fields |-> f, top_k |-> k],
               vector_search(q, f, k, e), e, <<>>)

CallHybridSearch ==
    \E q \in Queries, f \in FieldInputs, k \in TopKInputs, e \in RetrievalEnvs :
        /\ op = "init"
        /\ Record("hybrid_search",
               [query |-> q, strategy |-> "hybrid", search_fields |-> f, top_k |-> k],
               hybrid_search(q, f, k, e), e, <<>>)

CallGetAllProducts ==
    \E k \in TopKInputs \ {PyNone}, e \in RetrievalEnvs :
        /\ op = "init"
        /\ Record("get_all_products",
               [query |-> <<>>, strategy |-> "all", search_fields |-> PyNone, top_k |-> k],
               get_all_products(k, e), e, <<>>)

CallSearchProducts ==
    \E q \in Queries, st \in {"keyword", "vector", "hybrid"}, f \in FieldInputs,
       e \in RetrievalEnvs :
        /\ op = "init"
        /\ LET d == search_products(q, st, f, e)
           IN  Record("search_products",
                   [query |-> q, strategy |-> st, search_fields |-> f, top_k |-> PyNone],
                   d, e, d.notice)

CallLoadAllProducts ==
    \E e \in RetrievalEnvs :
        /\ op = "init"
        /\ LET d == load_all_products(e)
           IN  Record("load_all_products",
                   [query |-> <<>>, strategy |-> "all", search_fields |-> PyNone,
                    top_k |-> PyInt(100)],
                   d, e, d.notice)

\* the caller is done with the result; the next call starts afresh
Forget ==
    /\ op # "init"
    /\ op' = "init"
    /\ args' = NoArgs
    /\ calls' = <<>>
    /\ requests' = <<>>
    /\ results' = <<>>
    /\ outcome' = Returned(<<>>)
    /\ env' = NoEnv
    /\ notice' = <<>>
    /\ UNCHANGED <<session, process, completions>>

NextRetrieve ==
    \/ CallKeywordSearch
    \/ CallVectorSearch
    \/ CallHybridSearch
    \/ CallGetAllProducts
    \/ CallSearchProducts
    \/ CallLoadAllProducts
    \/ Forget

SpecRetrieve == InitRetrieve /\ [][NextRetrieve]_vars

-----------------------------------------------------------------------------
(* Specification of a whole session: every script run is one user action   *)
(* (a button of the sidebar, a pagination button, the selection of a view,  *)
(* a chat message) followed by the main content of the selected view.       *)

\* a larger catalog, whose listing fills MaxPages pages
CatalogSize == PRODUCTS_PER_PAGE * (MaxPages - 1) + 1

CatalogDocument(i) ==
    [item |-> [k \in {"id", "name"} |->
                  IF k = "id" THEN PyStr(<<"c">> \o Digits(i)) ELSE PyStr(<<"item">>)],
     attr |-> <<>>]

Catalog(n) == [i \in 1..n |-> CatalogDocument(i)]

\* the rankings the backend may compute in this session
AppRankings(n) == {<<>>, Index, Catalog(n)}

\* how the backends behave during the retrieval of a button (a call that is
\* never issued has no behaviour)
ButtonEnvs ==
    {e \in [embed : {"ok", "fail"}, search : {"ok", "fail"}, complete : {"ok"},
            ranked : AppRankings(CatalogSize)] :
        /\ e.embed = "fail" => e.search = "ok"
        /\ (e.embed = "fail" \/ e.search = "fail") => e.ranked = <<>>}

\* how the search backend behaves when the product list view loads
ViewEnvs == {e \in ButtonEnvs : e.embed = "ok"}

Menus == {"products", "chatbot"}

\* the behaviour of the view's load, when the run `r` leads to one
ViewEnvsOf(menu, r) ==
    IF menu = "products" /\ r.products = <<>> THEN ViewEnvs ELSE {NoEnv}

\* the session and the trace after a script run that did `r`
AppRecord(name, a, r, e, v) ==
    /\ products' = r.products
    /\ current_page' = r.current_page
    /\ is_search_mode' = r.is_search_mode
    /\ search_query' = r.search_query
    /\ op' = name
    /\ args' = a
    /\ calls' = r.calls
    /\ requests' = r.requests
    /\ results' = r.results
    /\ outcome' = r.outcome
    /\ notice' = r.notice
    /\ env' = [embed |-> e.embed, search |-> e.search, complete |-> e.complete,
               ranked |-> e.ranked, view |-> v]
    /\ UNCHANGED <<chat_messages, process, completions>>

InitApp ==
    /\ InitSession
    /\ InitProcess
    /\ InitTrace
    /\ results = <<>>

\* the search button is clicked
SearchClick ==
    \E menu \in Menus, query \in {<<>>, <<"coat">>},
       strategy \in {"keyword", "vector", "hybrid"},
       fields \in {PyList(<<>>), ALL_SEARCH_FIELDS}, e \in ButtonEnvs :
        /\ g_search_service # "None"
        /\ Falsy(PyStr(query)) => e = NoEnv
        /\ strategy = "keyword" => e.embed = "ok"
        /\ \E r \in {search_click(products, current_page, is_search_mode,
                                   search_query, query, strategy, fields, e)} :
               \E v \in ViewEnvsOf(menu, r) :
                   AppRecord("search_click",
                       [query |-> query, strategy |-> strategy,
                        search_fields |-> fields, top_k |-> PyNone, menu |-> menu],
                       main_content(menu, r, v), e, v)

\* the list-all button is clicked
ListAllClick ==
    \E menu \in Menus, e \in ViewEnvs :
        /\ g_search_service # "None"
        /\ \E r \in {list_all_click(e)} :
               \E v \in ViewEnvsOf(menu, r) :
                   AppRecord("list_all_click",
                       [query |-> <<>>, strategy |-> "all", search_fields |-> PyNone,
                        top_k |-> PyInt(100), menu |-> menu],
                       main_content(menu, r, v), e, v)

\* a view is selected (or the page is opened): a run without any button
SelectMenu ==
    \E menu \in Menus :
        /\ g_search_service # "None"
        /\ \E r \in {no_click(products, current_page, is_search_mode, search_query)} :
               \E v \in ViewEnvsOf(menu, r) :
                   AppRecord("select_menu",
                       [query |-> <<>>, strategy |-> "", search_fields |-> PyNone,
                        top_k |-> PyNone, menu |-> menu],
                       main_content(menu, r, v), NoEnv, v)

\* A pagination button of the grid is clicked: the run that handles the click
\* sets the page and st.rerun() starts the run that shows it.  The buttons
\* exist only while the grid of a non-empty product list is shown.
TurnPage(name, step) ==
    /\ products # <<>>
    /\ \E grid \in {display_products_grid(products, current_page)} :
           /\ IF step < 0 THEN grid.previous ELSE grid.next
           /\ \E r \in {no_click(products, grid.page + step, is_search_mode,
                                  search_query)} :
                  AppRecord(name,
                      [query |-> <<>>, strategy |-> "", search_fields |-> PyNone,
                       top_k |-> PyNone, menu |-> "products"],
                      main_content("products", r, NoEnv), NoEnv, NoEnv)

PreviousPage ==
    /\ g_search_service # "None"
    /\ TurnPage("previous_page", -1)

NextPage ==
    /\ g_search_service # "None"
    /\ TurnPage("next_page", 1)

\* a chat message is sent in the chatbot view
AppChatMessage ==
    /\ Len(chat_messages) < 2 * MaxAppExchanges
    /\ ChatMessage

NextApp ==
    \/ LoadApp
    \/ SearchClick
    \/ ListAllClick
    \/ SelectMenu
    \/ PreviousPage
    \/ NextPage
    \/ AppChatMessage

SpecApp == InitApp /\ [][NextApp]_vars

-----------------------------------------------------------------------------
(* Specification of the process and its backend clients: the process starts *)
(* with any required setting set, empty or not set; the config module is    *)
(* imported; then the accessors of the clients and the completion method    *)
(* are called in any order.                                                 *)

ConfigInputs == [RequiredSettings -> SettingValues]

TemperatureInputs == {PyNone, PyInt(0), PyFloat(0), PyFloat(2000), PyFloat(10000)}

MaxTokensInputs == {PyNone, PyInt(0), PyInt(1), PyInt(256)}

MessageInputs ==
    {<<[role |-> "user", content |-> <<"hello">>]>>,
     <<[role |-> "system", content |-> system_prompt],
       [role |-> "user", content |-> <<"warm", " ", "coat">>]>>}

InitClients ==
    /\ InitSession
    /\ InitTrace
    /\ results = <<>>
    /\ g_search_service = "None"
    /\ g_openai_service = "None"
    /\ config \in ConfigInputs
    /\ config_loaded = FALSE

\* the first import of the config module runs its body
ImportConfig ==
    /\ ~config_loaded
    /\ \E r \in {import_config(config)} :
           /\ config_loaded' = TRUE
           /\ op' = "import_config"
           /\ outcome' = IF r.raised THEN Raised(r.exc) ELSE Returned(<<>>)
           /\ notice' = <<Notice("print", r.printed)>>
    /\ args' = NoArgs
    /\ calls' = <<>>
    /\ completions' = <<>>
    /\ UNCHANGED <<session, g_search_service, g_openai_service, config, requests,
                   results, env>>

\* get_openai_service() is called
CallGetOpenAIService ==
    \E c \in ConstructOutcomes(g_openai_service) :
        /\ config_loaded
        /\ \E r \in {get_openai_service(g_openai_service, c)} :
               /\ g_openai_service' = r.g_openai
               /\ op' = "get_openai_service"
               /\ calls' = r.calls
               /\ outcome' = IF r.raised THEN Raised(r.exc) ELSE Returned(<<r.g_openai>>)
        /\ args' = NoArgs
        /\ completions' = <<>>
        /\ notice' = <<>>
        /\ UNCHANGED <<session, g_search_service, config, config_loaded, requests,
                       results, env>>

\* get_search_service() is called
CallGetSearchService ==
    \E cs \in ConstructOutcomes(g_search_service),
       co \in ConstructOutcomes(g_openai_service) :
        /\ config_loaded
        /\ cs = "fail" => co = "ok"
        /\ g_search_service # "None" => co = "ok"
        /\ \E r \in {get_search_service(g_search_service, g_openai_service, cs, co)} :
               /\ g_search_service' = r.g_search
               /\ g_openai_service' = r.g_openai
               /\ op' = "get_search_service"
               /\ calls' = r.calls
               /\ outcome' = IF r.raised THEN Raised(r.exc) ELSE Returned(<<r.g_search>>)
        /\ args' = NoArgs
        /\ completions' = <<>>
        /\ notice' = <<>>
        /\ UNCHANGED <<session, config, config_loaded, requests, results, env>>

\* OpenAIService.chat_completion is called on the instance
CallChatCompletion ==
    \E messages \in MessageInputs, temperature \in TemperatureInputs,
       max_tokens \in MaxTokensInputs, c \in {"ok", "fail"} :
        /\ g_openai_service # "None"
        /\ \E r \in {chat_completion(messages, temperature, max_tokens,
                                      [NoEnv EXCEPT !.complete = c])} :
               /\ op' = "chat_completion"
               /\ args' = [messages |-> messages, temperature |-> temperature,
                           max_tokens |-> max_tokens]
               /\ calls' = <<"chat.completions.create">>
               /\ completions' = <<r.call>>
               /\ outcome' = IF r.raised THEN Raised(r.exc) ELSE Returned(r.text)
               /\ env' = [NoEnv EXCEPT !.complete = c]
        /\ notice' = <<>>
        /\ UNCHANGED <<session, process, requests, results>>

NextClients ==
    \/ ImportConfig
    \/ CallGetOpenAIService
    \/ CallGetSearchService
    \/ CallChatCompletion

SpecClients == InitClients /\ [][NextClients]_vars

-----------------------------------------------------------------------------
(* Properties of result normalization (SpecNorm) *)

RecordFields == PlainKeys \cup {"imageTags", "score", "reranker_score"}

\* the key of the backend document a field of the record is read from
PayloadKeyOf(field) ==
    CASE field = "score" -> "@search.score"
      [] field = "reranker_score" -> "@search.reranker_score"
      [] OTHER -> field

\* the value of a field the backend document does not carry
Sentinel(field) == IF field = "imageTags" THEN PyList(<<>>) ELSE PyNone

\* C9: in every record produced by result normalization, whatever the backend
\* document (imageTags missing or null included), imageTags is a list
\* (possibly empty) and never null.
C9_ImageTagsNeverNull ==
    op = "_process_results" =>
        \A i \in 1..Len(outcome.value) : outcome.value[i].imageTags.t = "list"

\* C10: result normalization maps each backend document to exactly one record
\* in the same order; every field the document carries is in the record with
\* the document's value, every field it does not carry is the absent/empty
\* sentinel, and normalization does not fail.
C10_NormalizationFaithful ==
    op = "_process_results" =>
        /\ ~outcome.raised
        /\ Len(outcome.value) = Len(results)
        /\ \A i \in 1..Len(results) : \A f \in RecordFields :
               outcome.value[i][f] =
                   DictGet(results[i].item, PayloadKeyOf(f), Sentinel(f))

\* the labels of the entries of the grounding context, and the field of the
\* record each entry renders
ContextLabels ==
    <<"- name: ", "- brand: ", "- price: ", "- description: ", "- image caption: ",
      "- image description: ", "- tags: ", "- relevance score: ">>

ContextFields ==
    <<"name", "brand", "price", "description", "imageCaption", "imageDescription",
      "imageTags", "score">>

\* the positions of a token in a text
Positions(text, token) == {i \in 1..Len(text) : text[i] = token}

\* the text of the entry with this label: what follows it up to the line end
EntryOf(text, label) ==
    LET i == CHOOSE x \in Positions(text, label) : TRUE
        j == CHOOSE y \in (i + 1)..Len(text) :
                 /\ text[y] = "\n"
                 /\ \A z \in (i + 1)..(y - 1) : text[z] # "\n"
    IN  SubSeq(text, i + 1, j - 1)

\* a value that is absent: null, or an empty tag list
Absent(v) == v = PyNone \/ v = PyList(<<>>)

Placeholder(field) == IF field = "price" THEN <<"no price info">> ELSE <<"N/A">>

\* C11: for every top product, building the grounding context does not fail,
\* the context holds the eight entries (name, brand, price, description, image
\* caption, image description, tags, relevance score) once each and in this
\* order, no entry is empty, and the entry of a field whose value is absent
\* (null, or an empty tag list) is its placeholder: the no-price sentinel for
\* the price, "N/A" for the score and for every other field.
C11_ContextPlaceholders ==
    op = "product_context" =>
        /\ ~outcome.raised
        /\ \A n \in 1..8 :
               /\ Cardinality(Positions(outcome.value, ContextLabels[n])) = 1
               /\ EntryOf(outcome.value, ContextLabels[n]) # <<>>
               /\ Absent(ProductOf(results[1])[ContextFields[n]]) =>
                      EntryOf(outcome.value, ContextLabels[n])
                          = Placeholder(ContextFields[n])
        /\ \A m, n \in 1..8 :
               m < n => (CHOOSE x \in Positions(outcome.value, ContextLabels[m]) : TRUE)
                        < (CHOOSE x \in Positions(outcome.value, ContextLabels[n]) : TRUE)

\* a product without brand, price and tags, with a name and a description
C11_Witness ==
    /\ op = "product_context"
    /\ ~outcome.raised
    /\ "brand" \notin DOMAIN results[1].item
    /\ DictGet(results[1].item, "price", PyInt(0)) = PyNone
    /\ DictGet(results[1].item, "imageTags", PyNone) = PyList(<<>>)
    /\ EntryOf(outcome.value, "- name: ") = <<"wool", " ", "coat">>
    /\ EntryOf(outcome.value, "- brand: ") = <<"N/A">>
    /\ EntryOf(outcome.value, "- price: ") = <<"no price info">>
    /\ EntryOf(outcome.value, "- tags: ") = <<"N/A">>
    /\ EntryOf(outcome.value, "- relevance score: ") = <<"N/A">>

-----------------------------------------------------------------------------
(* Properties of the retrieval operations (SpecRetrieve) *)

\* how many times `call` was issued
Count(cs, call) == Cardinality({i \in 1..Len(cs) : cs[i] = call})

\* the last call issued by the operation failed
RemoteCallFailed ==
    /\ calls # <<>>
    /\ \/ calls[Len(calls)] = "embeddings.create" /\ env.embed = "fail"
       \/ calls[Len(calls)] = "search" /\ env.search = "fail"
       \/ calls[Len(calls)] = "chat.completions.create" /\ env.complete = "fail"

SearchMethods == {"keyword_search", "vector_search", "hybrid_search"}

\* C4: for every strategy and for the listing of all products, a failure of
\* the embedding call or of the search backend call is caught at the retrieval
\* boundary: the caller gets an empty list, an error notice carrying the
\* failure's description is shown, and no exception leaves the boundary.
C4_FailuresCaughtAtBoundary ==
    op \in {"search_products", "load_all_products"} =>
        /\ ~outcome.raised
        /\ RemoteCallFailed =>
               /\ outcome.value = <<>>
               /\ Len(notice) = 1
               /\ notice[1].level = "error"
               /\ notice[1].text[2] \in {"embedding failed", "search failed"}
        /\ ~RemoteCallFailed => notice = <<>>

C4_Witness ==
    /\ op = "search_products"
    /\ args.strategy = "hybrid"
    /\ calls = <<"embeddings.create", "search">>
    /\ env.search = "fail"
    /\ outcome = Returned(<<>>)
    /\ Len(notice) = 1

\* C5: a lexical retrieve, for every query text, field list and top_k, issues
\* no embedding call.
C5_LexicalNoEmbedding ==
    (op = "keyword_search" \/ (op = "search_products" /\ args.strategy = "keyword")) =>
        Count(calls, "embeddings.create") = 0

C5_Witness ==
    /\ op = "keyword_search"
    /\ args.query # <<>>
    /\ args.search_fields = PyList(<<"name">>)
    /\ calls = <<"search">>
    /\ Len(outcome.value) = 2

\* C6: a vector or hybrid retrieve issues exactly one embedding call, before
\* the search backend call, whatever top_k is.
C6_OneEmbeddingCall ==
    (op \in {"vector_search", "hybrid_search"}
       \/ (op = "search_products" /\ args.strategy \in {"vector", "hybrid"})) =>
        /\ Count(calls, "embeddings.create") = 1
        /\ calls[1] = "embeddings.create"
        /\ Count(calls, "search") <= 1

C6_Witness ==
    /\ op = "vector_search"
    /\ args.top_k = PyInt(1)
    /\ calls = <<"embeddings.create", "search">>
    /\ Len(outcome.value) = 1

\* C7: for every strategy, a retrieve with top_k = 0 whose remote calls
\* succeed returns an empty sequence and raises no error.
C7_TopKZeroReturnsEmpty ==
    (op \in SearchMethods /\ args.top_k = PyInt(0) /\ ~RemoteCallFailed) =>
        /\ ~outcome.raised
        /\ outcome.value = <<>>

\* the top_k of the query: the default when the caller passes none
TopKOf(a) == IF a.top_k = PyNone THEN PyInt(MAX_SEARCH_RESULTS) ELSE a.top_k

\* the operation is a retrieval with this strategy, directly or through
\* search_products
Retrieves(strategy) ==
    /\ op \in SearchMethods \cup {"search_products"}
    /\ args.strategy = strategy

\* C16: a vector retrieve (top_k a positive integer, or the default) sends at
\* most one query to the backend, after its embedding call succeeded; the
\* query carries no search text and no field restriction, and exactly one
\* vector query, on the vector field, for the embedding of the query text,
\* whose k is the query's top_k, which is also the requested result count.
C16_VectorQueryShape ==
    (Retrieves("vector") /\ args.top_k # PyInt(0)) =>
        /\ Len(requests) = (IF env.embed = "ok" THEN 1 ELSE 0)
        /\ \A n \in 1..Len(requests) :
               /\ requests[n].search_text = PyNone
               /\ "search_fields" \notin DOMAIN requests[n]
               /\ Len(requests[n].vector_queries) = 1
               /\ requests[n].vector_queries[1] =
                      [vector |-> get_embedding(args.query, env).vector,
                       k_nearest_neighbors |-> TopKOf(args),
                       fields |-> "descriptionVector"]
               /\ requests[n].top = TopKOf(args)

C16_Witness ==
    /\ op = "vector_search"
    /\ args.top_k = PyInt(2)
    /\ args.search_fields = ALL_SEARCH_FIELDS
    /\ Len(requests) = 1
    /\ requests[1].vector_queries[1].k_nearest_neighbors = PyInt(2)
    /\ Len(outcome.value) = 2

\* C17: a hybrid retrieve sends the query text and the vector query built
\* from the embedding of that text together in one backend query; a lexical or
\* hybrid query carries a field restriction exactly when the given field set
\* is non-empty, and the restriction is that set.
C17_HybridQueryAndFields ==
    /\ Retrieves("hybrid") =>
           /\ Len(requests) = (IF env.embed = "ok" THEN 1 ELSE 0)
           /\ \A n \in 1..Len(requests) :
                  /\ requests[n].search_text = PyStr(args.query)
                  /\ Len(requests[n].vector_queries) = 1
                  /\ requests[n].vector_queries[1].vector
                         = get_embedding(args.query, env).vector
    /\ Retrieves("keyword") =>
           /\ Len(requests) = 1
           /\ requests[1].search_text = PyStr(args.query)
           /\ "vector_queries" \notin DOMAIN requests[1]
    /\ (Retrieves("keyword") \/ Retrieves("hybrid")) =>
           \A n \in 1..Len(requests) :
               IF args.search_fields.t = "list" /\ args.search_fields.l # <<>>
               THEN /\ "search_fields" \in DOMAIN requests[n]
                    /\ requests[n].search_fields = args.search_fields
               ELSE "search_fields" \notin DOMAIN requests[n]

C17_Witness ==
    /\ op = "hybrid_search"
    /\ args.search_fields = PyList(<<"name">>)
    /\ args.query = <<" ", "red", "\n", "coat", "\n">>
    /\ Len(requests) = 1
    /\ requests[1].search_fields = PyList(<<"name">>)
    /\ requests[1].vector_queries[1].vector = <<"embedding of", "red", " ", "coat">>
    /\ Len(outcome.value) = 2

-----------------------------------------------------------------------------
(* Properties of the chat step (Spec) *)

UserTurn(prompt) == [role |-> "user", content |-> prompt]

LastTurn == chat_messages[Len(chat_messages)]

\* C1: a chat step whose hybrid retrieval yields no product (a failed
\* retrieval collapsed to an empty list included) appends, after the user
\* turn, one assistant turn carrying the fixed apology and no product, and
\* makes no call to the completion backend.
C1_EmptyRetrievalApology ==
    [][(op' = "chat" /\ ~outcome'.raised /\ outcome'.value = <<>>) =>
         /\ chat_messages' = chat_messages \o
                <<UserTurn(args'.query),
                  [role |-> "assistant", content |-> NoProductsMessage]>>
         /\ completions' = <<>>
         /\ Count(calls', "chat.completions.create") = 0]_vars

C1_Witness ==
    /\ op = "chat"
    /\ calls = <<"embeddings.create", "search">>
    /\ env.search = "fail"
    /\ outcome = Returned(<<>>)
    /\ LastTurn = [role |-> "assistant", content |-> NoProductsMessage]
    /\ completions = <<>>

\* C2: when the transcript (the new user turn included) has more than 7
\* turns, the messages passed to the completion backend are the persona
\* instruction, the grounding context, and the last 7 turns of the transcript
\* in their order: 9 messages.
C2_HistoryWindow ==
    [][(op' = "chat" /\ completions' # <<>> /\ Len(chat_messages) + 1 > 7) =>
         LET h == Append(chat_messages, UserTurn(args'.query))
             msgs == completions'[1].messages
         IN  /\ Len(msgs) = 9
             /\ msgs[1] = [role |-> "system", content |-> system_prompt]
             /\ msgs[2] = [role |-> "system",
                           content |-> product_context(outcome'.value[1]).text]
             /\ \A i \in 1..7 : msgs[2 + i] = h[Len(h) - 7 + i]]_vars

\* ten prior turns: the turns 5 to 11 of the transcript are forwarded
C2_Witness ==
    /\ op = "chat"
    /\ Len(chat_messages) = 12
    /\ completions # <<>>
    /\ Len(completions[1].messages) = 9
    /\ completions[1].messages[3] = chat_messages[5]
    /\ completions[1].messages[9] = chat_messages[11]
    /\ chat_messages[4] # chat_messages[6]

\* C3: when a step of a chat interaction raises, the exception is caught and
\* exactly one assistant turn without product is appended after the user turn:
\* the error message when the completion call raised, the fixed apology when
\* the retrieval raised (its exception is caught by search_products, which
\* shows the error and returns no product); nothing else of the session or of
\* the services changes, and the chat message after a failed one is processed
\* normally: when its calls succeed and products are found, it is answered
\* with the generated recommendation.
C3_FailureGivesApologyTurn ==
    [][/\ (op' = "chat" /\ RemoteCallFailed') =>
            /\ chat_messages' = chat_messages \o
                   <<UserTurn(args'.query),
                     [role |-> "assistant",
                      content |-> IF calls'[Len(calls')] = "chat.completions.create"
                                  THEN ErrorMessage("completion failed")
                                  ELSE NoProductsMessage]>>
            /\ UNCHANGED <<products, current_page, is_search_mode, search_query, process>>
       /\ (op = "chat" /\ RemoteCallFailed /\ op' = "chat" /\ ~RemoteCallFailed'
             /\ outcome'.value # <<>>) =>
            chat_messages' = chat_messages \o
                <<UserTurn(args'.query),
                  [role |-> "assistant", content |-> GeneratedText,
                   product |-> outcome'.value[1]]>>]_vars

\* C3 as stated: when a step of a chat interaction raises, the assistant turn
\* appended after the user turn carries the error message (and no product).
C3_FailureGivesErrorMessage ==
    [][(op' = "chat" /\ RemoteCallFailed') =>
         \E exc \in {"embedding failed", "search failed", "completion failed"} :
             chat_messages' = chat_messages \o
                 <<UserTurn(args'.query),
                   [role |-> "assistant", content |-> ErrorMessage(exc)]>>]_vars

\* a failed completion, then a chat message answered with a recommendation
C3_Witness ==
    /\ op = "chat"
    /\ Len(chat_messages) = 4
    /\ chat_messages[2] = [role |-> "assistant",
                           content |-> ErrorMessage("completion failed")]
    /\ "product" \in DOMAIN chat_messages[4]
    /\ chat_messages[4].content = GeneratedText

\* C8: when the retrieval returns products and the completion call succeeds,
\* the chat step appends, after the user turn, one assistant turn whose content
\* is the generated text and whose product is the first retrieved product, from
\* which the grounding context was built; it makes one completion call.
C8_TopProductAttached ==
    [][(op' = "chat" /\ outcome'.value # <<>> /\ completions' # <<>>
          /\ env'.complete = "ok") =>
         /\ chat_messages' = chat_messages \o
                <<UserTurn(args'.query),
                  [role |-> "assistant", content |-> GeneratedText,
                   product |-> outcome'.value[1]]>>
         /\ outcome'.value[1] = ProductOf(results'[1])
         /\ Len(completions') = 1
         /\ Count(calls', "chat.completions.create") = 1
         /\ completions'[1].messages[2].content
                = product_context(outcome'.value[1]).text]_vars

C8_Witness ==
    /\ op = "chat"
    /\ Len(outcome.value) = 2
    /\ outcome.value[1] # outcome.value[2]
    /\ Len(completions) = 1
    /\ LastTurn = [role |-> "assistant", content |-> GeneratedText,
                   product |-> outcome.value[1]]

\* s is a prefix of t
IsPrefix(s, t) == Len(s) <= Len(t) /\ SubSeq(t, 1, Len(s)) = s

\* C15: the transcript is append-only over any sequence of chat interactions
\* (successful, without result, or failing): every step leaves the earlier
\* transcript as a prefix of the later one, a chat interaction appends exactly
\* the user turn and one assistant turn, and the transcript is kept whole when
\* the prompt of the completion call holds only its last turns.
C15_TranscriptAppendOnly ==
    [][/\ IsPrefix(chat_messages, chat_messages')
       /\ op' = "chat" =>
              /\ Len(chat_messages') = Len(chat_messages) + 2
              /\ chat_messages'[Len(chat_messages) + 1] = UserTurn(args'.query)
              /\ chat_messages'[Len(chat_messages) + 2].role = "assistant"]_vars

\* a transcript of five exchanges that holds an error turn, an apology and a
\* recommendation, the last prompt having been cut to the window
C15_Witness ==
    /\ op = "chat"
    /\ Len(chat_messages) = 10
    /\ chat_messages[2].content = ErrorMessage("completion failed")
    /\ chat_messages[4].content = NoProductsMessage
    /\ "product" \in DOMAIN chat_messages[6]
    /\ completions # <<>>
    /\ Len(completions[1].messages) = 2 + HISTORY_WINDOW
    /\ completions[1].messages[3] = chat_messages[3]

\* C20: each message handed to the completion call by the chat step is a
\* role/content pair only: no forwarded turn carries a product or any other
\* field.
C20_MessagesRoleContentOnly ==
    op = "chat" =>
        \A c \in 1..Len(completions) : \A n \in 1..Len(completions[c].messages) :
            DOMAIN completions[c].messages[n] = {"role", "content"}

-----------------------------------------------------------------------------
(* Properties of a whole session (SpecApp) *)

\* the position of a call in the chain embedding, retrieval, completion
ChainRank(call) ==
    CASE call = "embeddings.create" -> 1
      [] call = "search" -> 2
      [] call = "chat.completions.create" -> 3

\* C12: a single user action (search click, list-all click, page turn, chat
\* message) issues at most one embedding call, at most one query to the search
\* backend and at most one completion call, in the order embedding, retrieval,
\* completion.
C12_OneCallChain ==
    op \in {"search_click", "list_all_click", "previous_page", "next_page", "chat"} =>
        /\ Count(calls, "embeddings.create") <= 1
        /\ Count(calls, "search") <= 1
        /\ Count(calls, "chat.completions.create") <= 1
        /\ \A i, j \in 1..Len(calls) :
               i < j => ChainRank(calls[i]) < ChainRank(calls[j])

\* the retrieval started by the search button failed
SearchRetrievalFailed ==
    /\ op = "search_click"
    /\ requests # <<>> \/ calls # <<>>
    /\ env.embed = "fail" \/ env.search = "fail"

\* C13: after a search action whose retrieval fails, an error notice is shown
\* and the product grid is empty: the session holds no product of an earlier
\* search or listing.
C13_FailedSearchEmptiesGrid ==
    SearchRetrievalFailed =>
        /\ \E n \in 1..Len(notice) : notice[n].level = "error"
        /\ products = <<>>

\* the last page of a product list
LastPage(prods) == Max(1, Ceil(Len(prods), PRODUCTS_PER_PAGE))

\* C21: after any sequence of search, list-all, previous-page and next-page
\* actions (and of the other actions of a session), the current page is within
\* 1..max(1, ceil(number of products / 9)); it is 1 after every step that
\* replaces the product list; and the page displayed for a non-empty product
\* list is the current page, holding its 1 to 9 products of the list.
C21_PageWithinBounds ==
    [][/\ current_page' \in 1..LastPage(products')
       /\ products' # products => current_page' = 1
       /\ products' # <<>> =>
              LET grid == display_products_grid(products', current_page')
                  first == PRODUCTS_PER_PAGE * (current_page' - 1) + 1
                  last == Min(PRODUCTS_PER_PAGE * current_page', Len(products'))
              IN  /\ grid.page = current_page'
                  /\ grid.total_pages = LastPage(products')
                  /\ Len(grid.page_products) \in 1..PRODUCTS_PER_PAGE
                  /\ grid.page_products = SubSeq(products', first, last)]_vars

\* the second page of a listing longer than a page, reached with the next
\* button, which shows the rest of the list
C21_Witness ==
    /\ op = "next_page"
    /\ current_page = 2
    /\ Len(products) > PRODUCTS_PER_PAGE
    /\ ~is_search_mode
    /\ display_products_grid(products, current_page).page_products
           = SubSeq(products, PRODUCTS_PER_PAGE + 1,
                    Min(2 * PRODUCTS_PER_PAGE, Len(products)))

-----------------------------------------------------------------------------
(* Properties of the process and its clients (SpecClients) *)

\* a required connection setting is not set or empty
MissingSetting == \E f \in RequiredSettings : Falsy(config[f])

\* C14: when a required connection setting (OpenAI endpoint, OpenAI API key,
\* search endpoint) is missing at process startup, the validation of the
\* configuration ends in an error that stops the process: the import of the
\* configuration raises and no operation runs afterwards.
C14_MissingSettingIsFatal ==
    MissingSetting =>
        \/ op = "init"
        \/ op = "import_config" /\ outcome.raised

\* C18: in any sequence of accessor calls, a call made while the client does
\* not exist invokes its constructor once, and leaves the client absent when
\* the construction raises; a call made while the client exists invokes no
\* constructor and returns the existing instance, which is never replaced.
C18_LazySingletons ==
    [][/\ op' = "get_openai_service" =>
            /\ Count(calls', "OpenAIService()")
                   = (IF g_openai_service = "None" THEN 1 ELSE 0)
            /\ outcome'.raised => g_openai_service' = "None"
            /\ ~outcome'.raised =>
                   /\ g_openai_service' # "None"
                   /\ outcome'.value = <<g_openai_service'>>
       /\ op' = "get_search_service" =>
            /\ Count(calls', "AzureSearchService()")
                   = (IF g_search_service = "None" THEN 1 ELSE 0)
            /\ Count(calls', "OpenAIService()") <=
                   (IF g_search_service = "None" /\ g_openai_service = "None"
                    THEN 1 ELSE 0)
            /\ outcome'.raised => g_search_service' = "None"
            /\ ~outcome'.raised =>
                   /\ g_search_service' # "None"
                   /\ g_openai_service' # "None"
                   /\ outcome'.value = <<g_search_service'>>
       /\ g_openai_service # "None" => g_openai_service' = g_openai_service
       /\ g_search_service # "None" => g_search_service' = g_search_service]_vars

\* both clients exist, and the accessor called last constructed nothing
C18_Witness ==
    /\ op = "get_openai_service"
    /\ g_search_service = "instance"
    /\ g_openai_service = "instance"
    /\ calls = <<>>
    /\ outcome = Returned(<<"instance">>)

\* C19: the completion call carries the caller's temperature and max_tokens
\* unchanged whenever they are supplied (0 included), and the defaults 0.7
\* and 1000 only for an argument that is omitted.
C19_CompletionParameters ==
    op = "chat_completion" =>
        /\ completions[1].temperature =
               (IF args.temperature = PyNone THEN PyFloat(DEFAULT_TEMPERATURE)
                ELSE args.temperature)
        /\ completions[1].max_tokens =
               (IF args.max_tokens = PyNone THEN PyInt(MAX_TOKENS)
                ELSE args.max_tokens)

====
